---- MODULE Spec2Model ----
(***************************************************************************)
(* GivingApi: the webhook-driven donation reconciliation of               *)
(* DonateController (init, subscribe, logDonation) as a state machine.     *)
(* Every request is a task; a task's position (pc) moves from one await of *)
(* the handler to the next, so handlers of concurrent requests interleave  *)
(* exactly at the suspension points of the code.                           *)
(***************************************************************************)
EXTENDS Integers, Sequences, FiniteSets, TLC

VARIABLES
    pc,               \* task -> position in its handler
    req,              \* task -> the request it serves
    loc,              \* task -> the handler's local variables
    resp,             \* task -> HTTP status answered (0: none yet)
    body,             \* task -> the rows the answer carries
    err,              \* task -> the error the handler threw ("" if none)
    eventLog,         \* repositories.eventLog rows
    donationBatches,  \* repositories.donationBatch rows
    donations,        \* repositories.donation rows
    fundDonations,    \* repositories.fundDonation rows
    subscriptions,    \* repositories.subscription rows
    subscriptionFunds,\* repositories.subscriptionFund rows
    getChargeCalls,   \* number of StripeHelper.getCharge round trips made
    providerSubs      \* number of subscriptions the provider has created

vars == <<pc, req, loc, resp, body, err, eventLog, donationBatches, donations,
          fundDonations, subscriptions, subscriptionFunds, getChargeCalls,
          providerSubs>>

stores == <<eventLog, donationBatches, donations, fundDonations,
            subscriptions, subscriptionFunds>>

----------------------------------------------------------------------------
(* Bounds *)

MaxTasks == 2

Tasks == 1..MaxTasks

----------------------------------------------------------------------------
(* JavaScript values *)

\* an absent numeric property / an absent id
Undefined == -1

\* an absent string property
NoStr == "<undefined>"

\* truthiness of a number-or-undefined and of a string-or-undefined
TruthyNum(n) == n # Undefined /\ n # 0
TruthyStr(s) == s # NoStr /\ s # ""

\* a || b on numbers
JsOr(a, b) == IF TruthyNum(a) THEN a ELSE b

\* a decimal amount in major units, or NaN
NaN == [nan |-> TRUE, whole |-> 0, cents |-> 0]

\* x / 100 (undefined / 100 is NaN)
Div100(x) ==
    IF x = Undefined THEN NaN
    ELSE [nan |-> FALSE, whole |-> x \div 100, cents |-> x % 100]

\* description?.toLowerCase()
ToLowerCase(s) ==
    CASE s = "Subscription creation" -> "subscription creation"
      [] s = "SUBSCRIPTION update"   -> "subscription update"
      [] s = "Online Giving"         -> "online giving"
      [] OTHER -> s

\* s.includes('subscription')
IncludesSubscription(s) ==
    s \in {"subscription creation", "subscription update", "subscription"}

----------------------------------------------------------------------------
(* Tenants, credentials, provider data *)

Churches == {"c1", "c2", "c3", "c4"}

\* repositories.gateway.loadAll(churchId): c3 has no gateway, c4 an empty key
Gateways(churchId) ==
    CASE churchId = "c1" ->
            <<[privateKey |-> "enc(sk_1)", webhookKey |-> "enc(wh_1)", productId |-> "prod_1"]>>
      [] churchId = "c2" ->
            <<[privateKey |-> "enc(sk_2)", webhookKey |-> "enc(wh_2)", productId |-> "prod_2"]>>
      [] churchId = "c4" ->
            <<[privateKey |-> "enc()", webhookKey |-> "enc(wh_4)", productId |-> "prod_4"]>>
      [] OTHER -> <<>>

\* EncryptionHelper.decrypt
Decrypt(c) ==
    CASE c = "enc(sk_1)" -> "sk_1"
      [] c = "enc(sk_2)" -> "sk_2"
      [] c = "enc(wh_1)" -> "wh_1"
      [] c = "enc(wh_2)" -> "wh_2"
      [] c = "enc(wh_4)" -> "wh_4"
      [] OTHER -> ""

\* values of the stripe-signature header: the webhook secret the body was
\* signed with, or a forged one
Signatures == {"wh_1", "wh_2", "forged"}

NoPmd == [present |-> FALSE, type |-> NoStr, hasSub |-> FALSE, last4 |-> NoStr]
Pmd(type, last4) == [present |-> TRUE, type |-> type, hasSub |-> TRUE, last4 |-> last4]

BaseEvent ==
    [type |-> NoStr, created |-> 1600000000, customer |-> "cus_1", status |-> "succeeded",
     amount |-> Undefined, metadataFunds |-> <<>>, hasFunds |-> FALSE,
     failure_message |-> NoStr, seller_message |-> "Payment complete.",
     hasOutcome |-> TRUE, pmd |-> NoPmd, amount_paid |-> Undefined,
     subscription |-> Undefined, billing_reason |-> NoStr, charge |-> NoStr,
     description |-> NoStr]

EventIds == {"evt_card", "evt_ach", "evt_subref", "evt_subdesc", "evt_invoice",
             "evt_sepa", "evt_failed", "evt_customer", "evt_card2"}

\* the events a body signed with a secret may carry: a provider account signs
\* its own events with its webhook secret, a forger signs whatever he likes
EventsSignedWith(sig) ==
    CASE sig = "wh_1" -> EventIds \ {"evt_card2"}
      [] sig = "wh_2" -> {"evt_card2"}
      [] OTHER -> EventIds

\* stripeEvent.data.object of each provider event, with stripeEvent.type
StripeEvent(id) ==
    CASE id = "evt_card" ->
            [BaseEvent EXCEPT !.type = "charge.succeeded", !.amount = 2550,
                !.pmd = Pmd("card", "4242"), !.hasFunds = TRUE,
                !.metadataFunds = <<[id |-> 101, amount |-> 15], [id |-> 102, amount |-> 10]>>,
                !.description = "Online Giving"]
      [] id = "evt_ach" ->
            [BaseEvent EXCEPT !.type = "charge.succeeded", !.amount = 0,
                !.pmd = Pmd("ach_debit", "6789"), !.hasFunds = TRUE,
                !.metadataFunds = <<[id |-> 101, amount |-> 0]>>]
      [] id = "evt_subref" ->
            [BaseEvent EXCEPT !.type = "charge.succeeded", !.amount = 2500,
                !.pmd = Pmd("card", "4242"), !.subscription = 1]
      [] id = "evt_subdesc" ->
            [BaseEvent EXCEPT !.type = "charge.succeeded", !.amount = 2500,
                !.pmd = Pmd("card", "4242"), !.description = "Subscription creation"]
      [] id = "evt_invoice" ->
            [BaseEvent EXCEPT !.type = "invoice.paid", !.amount_paid = 2500,
                !.status = "paid", !.billing_reason = "subscription_cycle",
                !.subscription = 1, !.charge = "ch_1", !.hasOutcome = FALSE,
                !.seller_message = NoStr]
      [] id = "evt_sepa" ->
            [BaseEvent EXCEPT !.type = "charge.succeeded", !.amount = 2000,
                !.pmd = Pmd("sepa_debit", "3000"), !.hasFunds = TRUE,
                !.metadataFunds = <<[id |-> 102, amount |-> 20]>>]
      [] id = "evt_failed" ->
            [BaseEvent EXCEPT !.type = "charge.failed", !.amount = 2500,
                !.status = "failed", !.pmd = Pmd("card", "0341"),
                !.failure_message = "Your card was declined.",
                !.seller_message = "The bank did not return any further details."]
      [] id = "evt_card2" ->
            [BaseEvent EXCEPT !.type = "charge.succeeded", !.amount = 5000,
                !.pmd = Pmd("card", "5556"), !.hasFunds = TRUE, !.customer = "cus_2",
                !.metadataFunds = <<[id |-> 201, amount |-> 50]>>]
      [] OTHER ->
            [BaseEvent EXCEPT !.type = "customer.created", !.hasOutcome = FALSE,
                !.seller_message = NoStr, !.status = NoStr, !.customer = NoStr]

\* the provider's charge objects: payment_method_details of a charge id
ChargePmd(chargeId) ==
    IF chargeId = "ch_1" THEN Pmd("card", "1881") ELSE NoPmd

\* repositories.customer.load(churchId, customer): the person of a customer
CustomerPerson(churchId, customer) ==
    CASE churchId = "c1" /\ customer = "cus_1" -> 11
      [] churchId = "c2" /\ customer = "cus_2" -> 22
      [] OTHER -> Undefined

----------------------------------------------------------------------------
(* DonateController.init: the pure parts of the webhook handler *)

\* StripeHelper.verifySignature: the event the body carries, or a throw when
\* the signature was not made with the tenant's webhook secret
VerifySignature(secretKey, sig, webhookKey) == sig = webhookKey

\* Authenticate with the result of the verification not looked at
Authenticate_Unverified(churchId, sig) ==
    LET gateways == Gateways(churchId) IN
    IF Len(gateways) = 0 THEN "unauthorized"
    ELSE IF Decrypt(gateways[1].privateKey) = "" THEN "unauthorized"
    ELSE "verified"

\* lines 26-36: "unauthorized" (return 401), "InvalidSignature" (throw) or "verified"
Authenticate(churchId, sig) ==
    LET gateways == Gateways(churchId) IN
    IF Len(gateways) = 0 THEN "unauthorized"
    ELSE LET secretKey  == Decrypt(gateways[1].privateKey)
             webhookKey == Decrypt(gateways[1].webhookKey) IN
         IF secretKey = "" THEN "unauthorized"
         ELSE IF ~VerifySignature(secretKey, sig, webhookKey) THEN "InvalidSignature"
         ELSE "verified"

\* SubscriptionEvent with the description not looked at
SubscriptionEvent_ReferenceOnly(ev) == TruthyNum(ev.subscription)

\* line 41: eventData.subscription || description?.toLowerCase().includes('subscription')
SubscriptionEvent(ev) ==
    \/ TruthyNum(ev.subscription)
    \/ (ev.description # NoStr /\ IncludesSubscription(ToLowerCase(ev.description)))

\* line 42
IgnoredSubscriptionCharge(ev) ==
    ev.type = "charge.succeeded" /\ SubscriptionEvent(ev)

\* lines 47-51: the inline detail, replaced by the fetched charge's when the
\* event carries a charge reference
PaymentMethodDetails(ev) ==
    IF TruthyStr(ev.charge) THEN ChargePmd(ev.charge) ELSE ev.pmd

\* MethodTypes with the two labels of the table exchanged
MethodTypes_Swapped(paymentType) ==
    CASE paymentType = "ach_debit" -> "Card"
      [] paymentType = "card"      -> "ACH Debit"
      [] OTHER                     -> NoStr

\* line 54-56: methodTypes[paymentType]; undefined for a type not in the table
MethodTypes(paymentType) ==
    CASE paymentType = "ach_debit" -> "ACH Debit"
      [] paymentType = "card"      -> "Card"
      [] OTHER                     -> NoStr

\* lines 55-57 throw a TypeError when there is no payment-method detail, or
\* no sub-object under its type
ExtractThrows(pmd) == ~pmd.present \/ ~pmd.hasSub

\* line 57: paymentMethodDetails[paymentType].last4
MethodDetails(pmd) == pmd.last4

\* lines 64-65: the message of the event-log entry, as its parts joined by ' '
Message(ev) ==
    IF TruthyStr(ev.billing_reason) THEN <<ev.billing_reason, ev.status>>
    ELSE IF TruthyStr(ev.failure_message) THEN <<ev.failure_message, ev.seller_message>>
    ELSE <<ev.seller_message>>

\* line 65 reads outcome.seller_message: a TypeError when there is no outcome
MessageThrows(ev) == ~TruthyStr(ev.billing_reason) /\ ~ev.hasOutcome

\* line 66
NewEventLog(churchId, eventId, ev) ==
    [id |-> eventId, churchId |-> churchId, customerId |-> ev.customer,
     provider |-> "Stripe", eventType |-> ev.type, status |-> ev.status,
     message |-> Message(ev), created |-> ev.created]

\* line 71
DonationEvent(ev) == ev.type = "charge.succeeded" \/ ev.type = "invoice.paid"

\* line 72: (amount || amount_paid) / 100
DonationAmount(ev) == Div100(JsOr(ev.amount, ev.amount_paid))

\* line 74; batchId and id are set by logDonation
NewDonation(churchId, ev, personId, method, methodDetails) ==
    [id |-> Undefined, churchId |-> churchId, amount |-> DonationAmount(ev),
     personId |-> personId, method |-> method, methodDetails |-> methodDetails,
     donationDate |-> ev.created, batchId |-> Undefined]

\* repositories.subscriptionFund.loadBySubscriptionId: the rows, by id
RECURSIVE RowsById(_)
RowsById(rows) ==
    IF rows = {} THEN <<>>
    ELSE LET first == CHOOSE r \in rows : \A q \in rows : r.id <= q.id
         IN <<first>> \o RowsById(rows \ {first})

LoadBySubscriptionId(rows, churchId, subscriptionId) ==
    RowsById({r \in rows : r.churchId = churchId /\ r.subscriptionId = subscriptionId})

\* line 75: JSON.parse(metadata.funds), else the stored subscription funds.
\* A parsed fund has no fundId property.
ParseFunds(ev) ==
    [i \in 1..Len(ev.metadataFunds) |->
        [id |-> ev.metadataFunds[i].id, amount |-> ev.metadataFunds[i].amount,
         fundId |-> Undefined]]

StoredFunds(rows, churchId, ev) ==
    LET loaded == LoadBySubscriptionId(rows, churchId, ev.subscription) IN
    [i \in 1..Len(loaded) |->
        [id |-> loaded[i].id, amount |-> loaded[i].amount, fundId |-> loaded[i].fundId]]

\* ResolveFunds without the fallback to the stored subscription funds
ResolveFunds_MetadataOnly(rows, churchId, ev) == ParseFunds(ev)

ResolveFunds(rows, churchId, ev) ==
    IF ev.hasFunds THEN ParseFunds(ev) ELSE StoredFunds(rows, churchId, ev)

----------------------------------------------------------------------------
(* DonateController.logDonation and subscribe: the pure parts *)

\* the id a repository's save gives a new row
NextId(rows) == Cardinality(rows) + 1

\* the current batches of a tenant
CurrentBatches(batches, churchId) ==
    {b \in batches : b.churchId = churchId /\ b.current}

\* repositories.donationBatch.getOrCreateCurrent: the tenant's current batch,
\* a new one if it has none (the store does both in one step)
GetOrCreateCurrent(batches, churchId) ==
    LET current == CurrentBatches(batches, churchId)
    IN  IF current # {} THEN CHOOSE b \in current : TRUE
        ELSE [id |-> NextId(batches), churchId |-> churchId, current |-> TRUE]

\* StampBatch with the assignment of line 125 left out
StampBatch_Unstamped(donationData, batch) == donationData

\* line 125
StampBatch(donationData, batch) == [donationData EXCEPT !.batchId = batch.id]

\* line 129
NewFundDonation_Orphan(donation, fund) ==
    [churchId |-> donation.churchId, amount |-> fund.amount,
     donationId |-> Undefined, fundId |-> fund.id]

NewFundDonation(donation, fund) ==
    [churchId |-> donation.churchId, amount |-> fund.amount,
     donationId |-> donation.id, fundId |-> fund.id]

\* line 111
NewSubscription(stripeSubscriptionId, churchId, personId, customerId) ==
    [id |-> stripeSubscriptionId, churchId |-> churchId, personId |-> personId,
     customerId |-> customerId]

\* line 116
NewSubscriptionFund_Unlinked(churchId, subscriptionId, fund) ==
    [churchId |-> churchId, subscriptionId |-> Undefined,
     fundId |-> fund.id, amount |-> fund.amount]

NewSubscriptionFund(churchId, subscriptionId, fund) ==
    [churchId |-> churchId, subscriptionId |-> subscriptionId,
     fundId |-> fund.id, amount |-> fund.amount]

\* Promise.all over the saves of items[1..n]: the rows of the saves in ok that
\* succeeded, each given its id by the repository
RECURSIVE SaveAll(_, _, _, _)
SaveAll(rows, items, ok, i) ==
    IF i > Len(items) THEN rows
    ELSE IF i \in ok
         THEN SaveAll(rows \cup {[id |-> NextId(rows)] @@ items[i]}, items, ok, i + 1)
         ELSE SaveAll(rows, items, ok, i + 1)

----------------------------------------------------------------------------
(* Tasks *)

NoDonation ==
    [id |-> Undefined, churchId |-> "", amount |-> NaN, personId |-> Undefined,
     method |-> NoStr, methodDetails |-> NoStr, donationDate |-> Undefined,
     batchId |-> Undefined]

NoReq == [op |-> "", churchId |-> "", sig |-> "", key |-> "", edit |-> FALSE]

NoLoc ==
    [event |-> "", existingEvent |-> "unset", method |-> NoStr, methodDetails |-> NoStr,
     donation |-> NoDonation, funds |-> <<>>, subscriptionId |-> Undefined]

\* the fund splits a subscribe request may carry
FundSplits ==
    { <<[id |-> 101, amount |-> 15], [id |-> 102, amount |-> 10]>> }

Init ==
    /\ pc = [t \in Tasks |-> "idle"]
    /\ req = [t \in Tasks |-> NoReq]
    /\ loc = [t \in Tasks |-> NoLoc]
    /\ resp = [t \in Tasks |-> 0]
    /\ body = [t \in Tasks |-> {}]
    /\ err = [t \in Tasks |-> ""]
    /\ eventLog = {}
    /\ donationBatches = {}
    /\ donations = {}
    /\ fundDonations = {}
    /\ subscriptions = {}
    /\ subscriptionFunds = {}
    /\ getChargeCalls = 0
    /\ providerSubs = 0

\* actionWrapper / actionWrapperAnon: the handler returned; its request and
\* locals are gone. A handler that returns nothing answers 200.
Return(t, status, rows) ==
    /\ pc' = [pc EXCEPT ![t] = "done"]
    /\ req' = [req EXCEPT ![t] = NoReq]
    /\ loc' = [loc EXCEPT ![t] = NoLoc]
    /\ resp' = [resp EXCEPT ![t] = status]
    /\ body' = [body EXCEPT ![t] = rows]
    /\ err' = err

Respond(t, status) == Return(t, status, {})

\* actionWrapper / actionWrapperAnon: the handler threw; a generic failure
Throw(t, error) ==
    /\ pc' = [pc EXCEPT ![t] = "done"]
    /\ req' = [req EXCEPT ![t] = NoReq]
    /\ loc' = [loc EXCEPT ![t] = NoLoc]
    /\ resp' = [resp EXCEPT ![t] = 500]
    /\ body' = body
    /\ err' = [err EXCEPT ![t] = error]

\* the handler goes on to its next await
Goto(t, position, locals) ==
    /\ pc' = [pc EXCEPT ![t] = position]
    /\ loc' = [loc EXCEPT ![t] = locals]
    /\ UNCHANGED <<req, resp, body, err>>

\* requests are numbered in their order of arrival
MayArrive(t) ==
    /\ pc[t] = "idle"
    /\ \A u \in Tasks : u < t => pc[u] # "idle"

----------------------------------------------------------------------------
(* POST /donate/webhook/:provider *)

\* a delivery arrives: tenant of the query string, signature header, and a
\* raw body that is opaque until line 36 parses it
WebhookArrive(t, churchId, sig) ==
    /\ MayArrive(t)
    /\ pc' = [pc EXCEPT ![t] = "w_verify"]
    /\ req' = [req EXCEPT ![t] = [NoReq EXCEPT !.op = "webhook", !.churchId = churchId,
                                                !.sig = sig]]
    /\ UNCHANGED <<loc, resp, body, err, stores, getChargeCalls, providerSubs>>

\* lines 38-59 for the verified event: subscription filter, payment details
WebhookExtract(t, eventId) ==
    LET ev  == StripeEvent(eventId)
        pmd == PaymentMethodDetails(ev)
    IN  IF IgnoredSubscriptionCharge(ev)
        THEN Respond(t, 200) /\ UNCHANGED getChargeCalls
        ELSE /\ getChargeCalls' = IF TruthyStr(ev.charge) THEN getChargeCalls + 1
                                  ELSE getChargeCalls
             /\ IF ExtractThrows(pmd)
                THEN Throw(t, "TypeError")
                ELSE Goto(t, "w_loadEvent",
                          [loc[t] EXCEPT !.event = eventId,
                                         !.method = MethodTypes(pmd.type),
                                         !.methodDetails = MethodDetails(pmd)])

\* lines 25-59: credentials, signature, subscription filter, payment details
WebhookVerify(t) ==
    /\ pc[t] = "w_verify"
    /\ LET auth == Authenticate(req[t].churchId, req[t].sig)
       IN  IF auth = "unauthorized"
           THEN Respond(t, 401) /\ UNCHANGED getChargeCalls
           ELSE IF auth = "InvalidSignature"
           THEN Throw(t, "InvalidSignature") /\ UNCHANGED getChargeCalls
           ELSE \E eventId \in EventsSignedWith(req[t].sig) : WebhookExtract(t, eventId)
    /\ UNCHANGED <<stores, providerSubs>>

\* line 62: existingEvent = await eventLog.load(churchId, stripeEvent.id)
WebhookLoadEvent(t) ==
    /\ pc[t] = "w_loadEvent"
    /\ LET found == \E e \in eventLog : e.churchId = req[t].churchId /\ e.id = loc[t].event
       IN  IF found
           THEN Goto(t, "w_donate", [loc[t] EXCEPT !.existingEvent = "found"])
           ELSE Goto(t, "w_createEvent", [loc[t] EXCEPT !.existingEvent = "absent"])
    /\ UNCHANGED <<stores, getChargeCalls, providerSubs>>

\* lines 63-68: the entry is created; the store keeps one row per (tenant, id)
WebhookCreateEvent(t) ==
    /\ pc[t] = "w_createEvent"
    /\ LET churchId == req[t].churchId
           ev       == StripeEvent(loc[t].event)
       IN  IF MessageThrows(ev)
           THEN Throw(t, "TypeError") /\ UNCHANGED eventLog
           ELSE IF \E e \in eventLog : e.churchId = churchId /\ e.id = loc[t].event
           THEN Throw(t, "PersistenceFailure") /\ UNCHANGED eventLog
           ELSE /\ eventLog' = eventLog \cup {NewEventLog(churchId, loc[t].event, ev)}
                /\ Goto(t, "w_donate", loc[t])
    /\ UNCHANGED <<donationBatches, donations, fundDonations, subscriptions,
                   subscriptionFunds, getChargeCalls, providerSubs>>

\* lines 71-75: the donation and its funds are built
WebhookDonate(t) ==
    /\ pc[t] = "w_donate"
    /\ LET churchId == req[t].churchId
           ev       == StripeEvent(loc[t].event)
           personId == CustomerPerson(churchId, ev.customer)
       IN  IF ~DonationEvent(ev) THEN Respond(t, 200)
           ELSE IF personId = Undefined THEN Throw(t, "TypeError")
           ELSE Goto(t, "ld_batch",
                     [loc[t] EXCEPT
                        !.donation = NewDonation(churchId, ev, personId,
                                                 loc[t].method, loc[t].methodDetails),
                        !.funds = ResolveFunds(subscriptionFunds, churchId, ev)])
    /\ UNCHANGED <<stores, getChargeCalls, providerSubs>>

----------------------------------------------------------------------------
(* logDonation *)

\* log (line 18) calls logDonation without awaiting it: the request has been
\* answered, and the promise settles with nobody waiting for it
Settle(t, error) ==
    /\ pc' = [pc EXCEPT ![t] = "done"]
    /\ req' = [req EXCEPT ![t] = NoReq]
    /\ loc' = [loc EXCEPT ![t] = NoLoc]
    /\ err' = [err EXCEPT ![t] = error]
    /\ UNCHANGED <<resp, body>>

\* logDonation resolves: init (line 76) awaits it and returns, log does not
LogDonationResolves(t) ==
    IF req[t].op = "log" THEN Settle(t, "") ELSE Respond(t, 200)

\* a call awaited at the task's position rejects
Rejects(t, error) ==
    IF req[t].op = "log" /\ pc[t] \in {"ld_batch", "ld_save", "ld_funds"}
    THEN Settle(t, error) ELSE Throw(t, error)

\* line 132: Promise.all resolves when every save of 1..n succeeded
AllSaved_Settled(ok, n) == TRUE

AllSaved(ok, n) == ok = 1..n

\* lines 124-125: the current batch of the donation's tenant, made if there
\* is none, in one step of the store
LogDonationBatch(t) ==
    /\ pc[t] = "ld_batch"
    /\ LET batch == GetOrCreateCurrent(donationBatches, loc[t].donation.churchId)
       IN  /\ donationBatches' = donationBatches \cup {batch}
           /\ Goto(t, "ld_save", [loc[t] EXCEPT !.donation = StampBatch(@, batch)])
    /\ UNCHANGED <<eventLog, donations, fundDonations, subscriptions,
                   subscriptionFunds, getChargeCalls, providerSubs>>

\* line 126: donation = await donation.save(donationData)
LogDonationSave(t) ==
    /\ pc[t] = "ld_save"
    /\ LET donation == [loc[t].donation EXCEPT !.id = NextId(donations)]
       IN  /\ donations' = donations \cup {donation}
           /\ Goto(t, "ld_funds", [loc[t] EXCEPT !.donation = donation])
    /\ UNCHANGED <<eventLog, donationBatches, fundDonations, subscriptions,
                   subscriptionFunds, getChargeCalls, providerSubs>>

\* lines 127-132: every fund allocation is submitted; the saves in ok succeed
LogDonationFunds(t) ==
    /\ pc[t] = "ld_funds"
    /\ LET items == [i \in 1..Len(loc[t].funds) |->
                        NewFundDonation(loc[t].donation, loc[t].funds[i])]
       IN  \E ok \in SUBSET (1..Len(items)) :
              /\ fundDonations' = SaveAll(fundDonations, items, ok, 1)
              /\ IF AllSaved(ok, Len(items)) THEN LogDonationResolves(t)
                 ELSE Rejects(t, "PersistenceFailure")
    /\ UNCHANGED <<eventLog, donationBatches, donations, subscriptions,
                   subscriptionFunds, getChargeCalls, providerSubs>>

----------------------------------------------------------------------------
(* POST /donate/subscribe *)

SubscribeArrive(t, churchId) ==
    /\ MayArrive(t)
    /\ pc' = [pc EXCEPT ![t] = "s_create"]
    /\ req' = [req EXCEPT ![t] = [NoReq EXCEPT !.op = "subscribe", !.churchId = churchId]]
    /\ UNCHANGED <<loc, resp, body, err, stores, getChargeCalls, providerSubs>>

\* lines 135-138
LoadPrivateKey(churchId) ==
    LET gateways == Gateways(churchId)
    IN  IF Len(gateways) = 0 THEN "" ELSE Decrypt(gateways[1].privateKey)

\* lines 102-110: the key, the body's funds, the provider's subscription
SubscribeCreate(t) ==
    /\ pc[t] = "s_create"
    /\ IF LoadPrivateKey(req[t].churchId) = ""
       THEN Respond(t, 401) /\ UNCHANGED providerSubs
       ELSE \E funds \in FundSplits :
               /\ providerSubs' = providerSubs + 1
               /\ Goto(t, "s_saveSub", [loc[t] EXCEPT !.subscriptionId = providerSubs + 1,
                                                      !.funds = funds])
    /\ UNCHANGED <<stores, getChargeCalls>>

\* lines 111-112
SubscribeSaveSub(t) ==
    /\ pc[t] = "s_saveSub"
    /\ subscriptions' = subscriptions \cup
          {NewSubscription(loc[t].subscriptionId, req[t].churchId, 11, "cus_1")}
    /\ Goto(t, "s_saveFunds", loc[t])
    /\ UNCHANGED <<eventLog, donationBatches, donations, fundDonations,
                   subscriptionFunds, getChargeCalls, providerSubs>>

\* lines 114-119
SubscribeSaveFunds(t) ==
    /\ pc[t] = "s_saveFunds"
    /\ LET items == [i \in 1..Len(loc[t].funds) |->
                        NewSubscriptionFund(req[t].churchId, loc[t].subscriptionId,
                                            loc[t].funds[i])]
       IN  \E ok \in SUBSET (1..Len(items)) :
              /\ subscriptionFunds' = SaveAll(subscriptionFunds, items, ok, 1)
              /\ IF AllSaved(ok, Len(items))
                 THEN Return(t, 200, subscriptionFunds' \ subscriptionFunds)
                 ELSE Throw(t, "PersistenceFailure")
    /\ UNCHANGED <<eventLog, donationBatches, donations, fundDonations,
                   subscriptions, getChargeCalls, providerSubs>>

----------------------------------------------------------------------------
(* POST /donate/log *)

\* the secret keys a caller of log may hold: the tenant's, or none of a tenant
Keys == {"sk_1", "sk_2", "none"}

\* req.body.donation and req.body.fundData of a log request for a tenant
LogDonationBody(churchId) ==
    [NoDonation EXCEPT !.churchId = churchId, !.amount = Div100(2000),
                       !.personId = 33, !.method = "Cash", !.methodDetails = "",
                       !.donationDate = 1600000000]

LogFundData == [id |-> 101, amount |-> 20, fundId |-> Undefined]

\* a log request arrives: the tenant its donation names, the key its caller holds
LogArrive(t, churchId, key) ==
    /\ MayArrive(t)
    /\ pc' = [pc EXCEPT ![t] = "l_key"]
    /\ req' = [req EXCEPT ![t] = [NoReq EXCEPT !.op = "log", !.churchId = churchId,
                                                !.key = key]]
    /\ UNCHANGED <<loc, resp, body, err, stores, getChargeCalls, providerSubs>>

\* lines 15-18: the tenant's key is loaded; logDonation is called and runs to
\* its first await while the handler returns
LogStart(t) ==
    /\ pc[t] = "l_key"
    /\ IF LoadPrivateKey(req[t].churchId) = ""
       THEN Respond(t, 401)
       ELSE /\ pc' = [pc EXCEPT ![t] = "ld_batch"]
            /\ loc' = [loc EXCEPT ![t] = [NoLoc EXCEPT
                          !.donation = LogDonationBody(req[t].churchId),
                          !.funds = <<LogFundData>>]]
            /\ resp' = [resp EXCEPT ![t] = 200]
            /\ UNCHANGED <<req, body, err>>
    /\ UNCHANGED <<stores, getChargeCalls, providerSubs>>

----------------------------------------------------------------------------
(* POST /donate/charge *)

\* req.body.type
ChargeTypes == {"card", "bank", "other"}

\* lines 88-94: the payment the provider is asked for; req.body.id is "pm_1"
PaymentData(type) ==
    [amount         |-> 2500,
     currency       |-> "usd",
     customer       |-> "cus_1",
     funds          |-> TRUE,
     payment_method |-> IF type = "card" THEN "pm_1" ELSE NoStr,
     confirm        |-> type = "card",
     off_session    |-> type = "card",
     source         |-> IF type = "bank" THEN "pm_1" ELSE NoStr]

\* a charge request of a session principal of a tenant arrives
ChargeArrive(t, churchId) ==
    /\ MayArrive(t)
    /\ pc' = [pc EXCEPT ![t] = "c_key"]
    /\ req' = [req EXCEPT ![t] = [NoReq EXCEPT !.op = "charge", !.churchId = churchId]]
    /\ UNCHANGED <<loc, resp, body, err, stores, getChargeCalls, providerSubs>>

\* line 95: the provider's result is the handler's result
ChargeReturns_Logged(t, paymentData) ==
    Goto(t, "ld_batch",
         [NoLoc EXCEPT !.donation = [NoDonation EXCEPT !.churchId = req[t].churchId,
                                                       !.amount = Div100(paymentData.amount)],
                       !.funds = <<LogFundData>>])

ChargeReturns(t, paymentData) == Return(t, 200, {paymentData})

\* lines 84-95: the key, the payment data, StripeHelper.donate
ChargeDonate(t) ==
    /\ pc[t] = "c_key"
    /\ IF LoadPrivateKey(req[t].churchId) = ""
       THEN Respond(t, 401)
       ELSE \E type \in ChargeTypes, accepted \in BOOLEAN :
               IF accepted THEN ChargeReturns(t, PaymentData(type))
               ELSE Throw(t, "ProviderError")
    /\ UNCHANGED <<stores, getChargeCalls, providerSubs>>

----------------------------------------------------------------------------
(* DonationController.save: POST /donations *)

\* the tenants with rows and credentials
Tenants == {"c1", "c2"}

\* a donation of req.body: the tenant it names, a row id or none
PostedDonations ==
    {[NoDonation EXCEPT !.churchId = c, !.id = id, !.amount = Div100(5000),
                        !.personId = 44, !.method = "Check", !.methodDetails = ""]
        : c \in Tenants, id \in {Undefined, 1}}

\* line 57: donation.churchId = au.churchId
SessionDonation_AsPosted(churchId, donation) == donation

SessionDonation(churchId, donation) == [donation EXCEPT !.churchId = churchId]

\* repositories.donation.save: a donation without id becomes a new row, a
\* donation with an id replaces the row of that id of its tenant
SaveDonation(rows, donation) ==
    IF donation.id = Undefined
    THEN rows \cup {[donation EXCEPT !.id = NextId(rows)]}
    ELSE {IF r.id = donation.id /\ r.churchId = donation.churchId THEN donation ELSE r
             : r \in rows}

\* a save request of a session principal arrives: its tenant, its permission
SaveArrive(t, churchId, edit) ==
    /\ MayArrive(t)
    /\ pc' = [pc EXCEPT ![t] = "d_save"]
    /\ req' = [req EXCEPT ![t] = [NoReq EXCEPT !.op = "save", !.churchId = churchId,
                                                !.edit = edit]]
    /\ UNCHANGED <<loc, resp, body, err, stores, getChargeCalls, providerSubs>>

\* lines 54-59: the permission, the tenant of the session on the donation, the
\* save, the rows of the tenant that were saved
SaveDonations(t) ==
    /\ pc[t] = "d_save"
    /\ IF ~req[t].edit
       THEN Respond(t, 401) /\ UNCHANGED donations
       ELSE \E posted \in PostedDonations :
               LET donation == SessionDonation(req[t].churchId, posted)
               IN  /\ donations' = SaveDonation(donations, donation)
                   /\ Return(t, 200,
                             {r \in donations' :
                                 /\ r.churchId = donation.churchId
                                 /\ r \notin donations \/ r.id = donation.id})
    /\ UNCHANGED <<eventLog, donationBatches, fundDonations, subscriptions,
                   subscriptionFunds, getChargeCalls, providerSubs>>

----------------------------------------------------------------------------
(* A repository or provider call the handler awaits fails *)

Awaiting == {"w_verify", "w_loadEvent", "w_createEvent", "w_donate", "ld_batch",
             "ld_save", "s_create", "s_saveSub", "l_key", "c_key", "d_save"}

AwaitFails(t) ==
    /\ pc[t] \in Awaiting
    /\ Rejects(t, IF pc[t] = "s_create" THEN "ProviderError" ELSE "PersistenceFailure")
    /\ UNCHANGED <<stores, getChargeCalls, providerSubs>>

----------------------------------------------------------------------------

Next ==
    \E t \in Tasks :
        \/ \E c \in Churches, s \in Signatures : WebhookArrive(t, c, s)
        \/ WebhookVerify(t)
        \/ WebhookLoadEvent(t)
        \/ WebhookCreateEvent(t)
        \/ WebhookDonate(t)
        \/ LogDonationBatch(t)
        \/ LogDonationSave(t)
        \/ LogDonationFunds(t)
        \/ \E c \in Churches : SubscribeArrive(t, c)
        \/ SubscribeCreate(t)
        \/ SubscribeSaveSub(t)
        \/ SubscribeSaveFunds(t)
        \/ AwaitFails(t)

Spec == Init /\ [][Next]_vars

\* charges and the webhook deliveries that follow them
NextCharge ==
    \E t \in Tasks :
        \/ \E c \in Churches : ChargeArrive(t, c)
        \/ ChargeDonate(t)
        \/ \E c \in Churches, sig \in Signatures : WebhookArrive(t, c, sig)
        \/ WebhookVerify(t)
        \/ WebhookLoadEvent(t)
        \/ WebhookCreateEvent(t)
        \/ WebhookDonate(t)
        \/ LogDonationBatch(t)
        \/ LogDonationSave(t)
        \/ LogDonationFunds(t)
        \/ AwaitFails(t)

SpecCharge == Init /\ [][NextCharge]_vars

\* the operations of two tenants with credentials, next to each other
NextTenants ==
    \E t \in Tasks :
        \/ \E c \in Tenants, edit \in BOOLEAN : SaveArrive(t, c, edit)
        \/ SaveDonations(t)
        \/ \E c \in Tenants : ChargeArrive(t, c)
        \/ ChargeDonate(t)
        \/ \E c \in Tenants, sig \in {"wh_1", "wh_2"} : WebhookArrive(t, c, sig)
        \/ WebhookVerify(t)
        \/ WebhookLoadEvent(t)
        \/ WebhookCreateEvent(t)
        \/ WebhookDonate(t)
        \/ LogDonationBatch(t)
        \/ LogDonationSave(t)
        \/ LogDonationFunds(t)
        \/ \E c \in Tenants : SubscribeArrive(t, c)
        \/ SubscribeCreate(t)
        \/ SubscribeSaveSub(t)
        \/ SubscribeSaveFunds(t)
        \/ AwaitFails(t)

SpecTenants == Init /\ [][NextTenants]_vars

\* the anonymous log entry point
NextLog ==
    \E t \in Tasks :
        \/ \E c \in Churches, k \in Keys : LogArrive(t, c, k)
        \/ LogStart(t)
        \/ LogDonationBatch(t)
        \/ LogDonationSave(t)
        \/ LogDonationFunds(t)
        \/ AwaitFails(t)

SpecLog == Init /\ [][NextLog]_vars

----------------------------------------------------------------------------
(* Properties *)

WebhookTasks == {t \in Tasks : req[t].op = "webhook"}

\* the task takes a step
Steps(t) == pc'[t] # pc[t]

\* the request's tenant has no gateway credentials / an empty secret key
NoCredentials(t) == Len(Gateways(req[t].churchId)) = 0
EmptySecretKey(t) ==
    /\ ~NoCredentials(t)
    /\ Decrypt(Gateways(req[t].churchId)[1].privateKey) = ""

\* the request's signature was not made with the tenant's webhook secret
SignatureFails(t) ==
    /\ ~NoCredentials(t)
    /\ ~EmptySecretKey(t)
    /\ req[t].sig # Decrypt(Gateways(req[t].churchId)[1].webhookKey)

\* C1: a delivery that finds the EventLogEntry of its event already there
\* creates no Donation and no FundDonation row.
C1_RedeliveryWritesNothing ==
    [][\A t \in Tasks :
          (req[t].op = "webhook" /\ loc[t].existingEvent = "found" /\ Steps(t))
          => (donations' = donations /\ fundDonations' = fundDonations)]_vars

\* a charge.succeeded event in a subscription context: a subscription
\* reference, or "subscription" in its description whatever the case
SubscriptionCharge(eventId) ==
    LET ev == StripeEvent(eventId) IN
    /\ ev.type = "charge.succeeded"
    /\ \/ ev.subscription # Undefined
       \/ ev.description \in {"Subscription creation", "SUBSCRIPTION update"}

\* C2 as claimed: when the handler of a verified delivery answers success
\* without having looked at the Event Log, which it does for a
\* charge.succeeded event in a subscription context only, it has made no
\* Donation and the Event Log holds an entry of such an event for the tenant.
C2_SubscriptionChargeLogged ==
    [][\A t \in Tasks :
          (pc[t] = "w_verify" /\ pc'[t] = "done" /\ resp'[t] = 200)
          => /\ donations' = donations
             /\ \E x \in eventLog' : x.churchId = req[t].churchId /\ SubscriptionCharge(x.id)]_vars

\* C2 as amended: a charge.succeeded event in a subscription context never
\* gets past the subscription filter, so that no EventLogEntry and no
\* Donation comes of it, and the success answered at the filter writes nothing.
C2_SubscriptionChargeIgnored ==
    /\ [](/\ \A x \in eventLog : ~SubscriptionCharge(x.id)
          /\ \A t \in WebhookTasks : loc[t].event # "" => ~SubscriptionCharge(loc[t].event))
    /\ [][\A t \in Tasks :
            (pc[t] = "w_verify" /\ pc'[t] = "done" /\ resp'[t] = 200)
            => UNCHANGED <<stores, getChargeCalls>>]_vars

\* a delivery was answered success and nothing at all has been written: it
\* was a charge.succeeded event in a subscription context
C2_Witness ==
    /\ \E t \in Tasks : pc[t] = "done" /\ resp[t] = 200
    /\ eventLog = {} /\ donations = {} /\ donationBatches = {} /\ providerSubs = 0

\* C3: the step of a delivery whose signature fails the verification writes
\* no row to any store, makes no charge lookup, and ends the request.
C3_InvalidSignatureWritesNothing ==
    [][\A t \in Tasks :
          (pc[t] = "w_verify" /\ SignatureFails(t) /\ Steps(t))
          => (pc'[t] = "done" /\ UNCHANGED <<stores, getChargeCalls>>)]_vars

\* a delivery was ended by the failed verification of its signature
C3_Witness ==
    \E t \in Tasks : pc[t] = "done" /\ err[t] = "InvalidSignature"

\* C4: a delivery for a tenant without credentials, with an empty secret
\* key, or with a signature that fails, is answered 401 (no repository call
\* having failed).
C4_Unauthorized ==
    [][\A t \in Tasks :
          (/\ pc[t] = "w_verify" /\ pc'[t] = "done"
           /\ err'[t] # "PersistenceFailure"
           /\ (NoCredentials(t) \/ EmptySecretKey(t) \/ SignatureFails(t)))
          => resp'[t] = 401]_vars

InLogDonation == {"ld_batch", "ld_save", "ld_funds"}

\* C5: a tenant never has two batches, a donation past getOrCreateCurrent
\* carries the id of its tenant's current batch, and every persisted
\* Donation carries the id of a batch of its tenant.
C5_OneCurrentBatch ==
    /\ \A c \in Churches : Cardinality({b \in donationBatches : b.churchId = c}) <= 1
    /\ \A t \in Tasks :
          pc[t] \in {"ld_save", "ld_funds"}
          => \E b \in CurrentBatches(donationBatches, loc[t].donation.churchId) :
                loc[t].donation.batchId = b.id
    /\ \A t \in Tasks : pc[t] = "ld_funds" => loc[t].donation \in donations
    /\ \A d \in donations :
          \E b \in donationBatches : b.churchId = d.churchId /\ b.id = d.batchId

\* two postings of one tenant both got their batch before either saved its
\* Donation, and the tenant has one batch
C5_Witness ==
    \E t, u \in Tasks :
        /\ t # u
        /\ pc[t] = "ld_save" /\ pc[u] = "ld_save"
        /\ loc[t].donation.churchId = loc[u].donation.churchId
        /\ loc[t].donation.batchId = loc[u].donation.batchId
        /\ Cardinality(donationBatches) = 1

\* C6: the Event Log holds at most one entry of a (tenant, event id), and no
\* two deliveries of one event id to one tenant have each saved a Donation.
C6_AppliedAtMostOnce ==
    /\ \A x, y \in eventLog : (x.churchId = y.churchId /\ x.id = y.id) => x = y
    /\ \A t, u \in WebhookTasks :
          (/\ t # u
           /\ req[t].churchId = req[u].churchId
           /\ loc[t].event = loc[u].event
           /\ loc[t].donation.id # Undefined)
          => loc[u].donation.id = Undefined

Amounts(seq) == [i \in 1..Len(seq) |-> seq[i].amount]

\* the subscribe request of task u returned the SubscriptionFund rows it
\* stored for subscription subscriptionId of tenant churchId
SubscribeReturned(u, churchId, subscriptionId) ==
    /\ pc[u] = "done" /\ resp[u] = 200 /\ body[u] # {}
    /\ \A r \in body[u] : r.churchId = churchId /\ r.subscriptionId = subscriptionId

\* an invoice.paid delivery without metadata.funds
Recurring(t) ==
    /\ req[t].op = "webhook" /\ loc[t].event # ""
    /\ StripeEvent(loc[t].event).type = "invoice.paid"
    /\ ~StripeEvent(loc[t].event).hasFunds

\* C7: an invoice.paid delivery without metadata.funds that resolves its
\* funds after the subscribe of its subscription returned resolves them to
\* the amounts that subscribe stored, and on success it has written one
\* FundDonation per resolved fund, with that fund's amount, for its Donation.
C7_FundSplitRecovered ==
    [][\A t \in Tasks :
          /\ (pc[t] = "w_donate" /\ pc'[t] = "ld_batch" /\ Recurring(t))
             => \A u \in Tasks :
                   SubscribeReturned(u, req[t].churchId, StripeEvent(loc[t].event).subscription)
                   => Amounts(loc'[t].funds) = Amounts(RowsById(body[u]))
          /\ (pc[t] = "ld_funds" /\ resp'[t] = 200 /\ Recurring(t))
             => LET new == fundDonations' \ fundDonations
                IN  /\ Amounts(RowsById(new)) = Amounts(loc[t].funds)
                    /\ \A r \in new : /\ r.donationId = loc[t].donation.id
                                      /\ r.churchId = req[t].churchId]_vars

\* a subscribe returned the rows of subscription 1 of c1, and the Donation
\* of its invoice (paid by charge ch_1) has FundDonations of those amounts
C7_Witness ==
    \E u \in Tasks :
        /\ SubscribeReturned(u, "c1", 1)
        /\ \E d \in donations :
              /\ d.churchId = "c1" /\ d.methodDetails = "1881"
              /\ Amounts(RowsById({f \in fundDonations : f.donationId = d.id}))
                    = Amounts(RowsById(body[u]))

\* C8: the amount of the Donation of a delivery is its event's amount (a
\* charge.succeeded) or amount_paid (an invoice.paid) over 100.
C8_AmountOver100 ==
    \A t \in WebhookTasks :
        pc[t] \in InLogDonation
        => LET ev == StripeEvent(loc[t].event)
           IN  loc[t].donation.amount =
                  Div100(IF ev.type = "charge.succeeded" THEN ev.amount ELSE ev.amount_paid)

\* the payment-method detail C9 names: the inline one, or the one of the
\* referenced charge when the event has none
DetailOf(ev) == IF ~ev.pmd.present /\ ev.charge # NoStr THEN ChargePmd(ev.charge) ELSE ev.pmd

\* C9: the Donation of a delivery has the label of its detail's type (ACH
\* Debit for ach_debit, Card for card) and the detail's last4, and is saved so.
C9_MethodFromDetail ==
    \A t \in WebhookTasks :
        pc[t] \in InLogDonation
        => LET detail == DetailOf(StripeEvent(loc[t].event))
               d      == loc[t].donation
           IN  /\ detail.type = "ach_debit" => d.method = "ACH Debit"
               /\ detail.type = "card" => d.method = "Card"
               /\ d.methodDetails = detail.last4
               /\ pc[t] = "ld_funds" => d \in donations

\* the Donations of an ACH charge and of an invoice, whose detail is the one
\* of its charge, are both saved
C9_Witness ==
    /\ \E d \in donations : d.method = "ACH Debit" /\ d.methodDetails = "6789"
    /\ \E t \in WebhookTasks :
          /\ pc[t] = "ld_funds" /\ loc[t].event = "evt_invoice"
          /\ loc[t].donation.method = "Card" /\ loc[t].donation.methodDetails = "1881"

\* C10: no EventLogEntry is of an event whose payment-method type is outside
\* the table, and no Donation has an undefined method label.
C10_UnknownTypeRejected ==
    /\ \A x \in eventLog : DetailOf(StripeEvent(x.id)).type \in {"ach_debit", "card"}
    /\ \A d \in donations : d.method # NoStr

\* C13: no request has been answered success unless its handler has ended
\* without an error, and a request whose handler met an error is answered
\* with a failure.
C13_FailureReported ==
    \A t \in Tasks :
        /\ resp[t] = 200 => (pc[t] = "done" /\ err[t] = "")
        /\ err[t] # "" => resp[t] = 500

\* the caller of a log request holds the secret key of the tenant it names
HoldsTenantKey(t) ==
    /\ LoadPrivateKey(req[t].churchId) # ""
    /\ req[t].key = LoadPrivateKey(req[t].churchId)

\* C14: a log request whose caller does not hold the tenant's secret key
\* writes nothing and is answered 401.
C14_LogNeedsTenantKey ==
    [][\A t \in Tasks :
          (req[t].op = "log" /\ ~HoldsTenantKey(t) /\ Steps(t))
          => /\ UNCHANGED stores
             /\ resp'[t] \in {401, 500}]_vars

\* the event's type is none of those a donation is recorded for (line 71)
OtherType(eventId) ==
    StripeEvent(eventId).type \notin {"charge.succeeded", "invoice.paid"}

\* C11: when the handler processes a verified event of another type the
\* request, if that step ends it, is answered 200; a task that carries such an
\* event never writes a batch, a Donation or a FundDonation and ends with 200.
C11_OtherTypeIgnored ==
    [][\A t \in WebhookTasks :
          /\ \A eventId \in EventIds :
                (/\ pc[t] = "w_verify"
                 /\ ~NoCredentials(t) /\ ~EmptySecretKey(t) /\ ~SignatureFails(t)
                 /\ OtherType(eventId)
                 /\ WebhookExtract(t, eventId))
                => (pc'[t] = "done" => resp'[t] = 200)
          /\ (/\ loc[t].event # ""
              /\ OtherType(loc[t].event)
              /\ Steps(t))
             => /\ UNCHANGED <<donationBatches, donations, fundDonations>>
                /\ pc'[t] = "done" => (resp'[t] = 200 \/ err'[t] = "PersistenceFailure")]_vars

\* C12: once a delivery has failed after the event's log entry was written
\* and before any Donation was persisted, a redelivery that finds the entry
\* persists no Donation.
C12_FailedEventNeverRecorded ==
    [][\A t \in WebhookTasks :
          (/\ loc[t].existingEvent = "found"
           /\ donations = {}
           /\ \A u \in Tasks \ {t} : pc[u] \in {"idle", "done"}
           /\ \E u \in Tasks \ {t} : pc[u] = "done" /\ err[u] = "PersistenceFailure")
          => donations' = {}]_vars

\* C15: no step of a charge request changes a store, whatever the type of the
\* charge and the provider's answer; a Donation row is added only by a
\* webhook task at the donation save of logDonation.
C15_ChargeOnlyDelegates ==
    [][/\ \A t \in Tasks : (req[t].op = "charge" /\ Steps(t)) => UNCHANGED stores
       /\ donations' # donations
          => \E t \in WebhookTasks : pc[t] = "ld_save" /\ Steps(t)]_vars

\* a bank charge was accepted by the provider and answered; the Donation a
\* webhook delivery recorded is there
C15_Witness ==
    /\ donations # {}
    /\ \E t \in Tasks :
          /\ pc[t] = "done" /\ resp[t] = 200
          /\ \E p \in body[t] : "source" \in DOMAIN p /\ p.source = "pm_1"

\* the SubscriptionFund rows of a subscription of a tenant
FundsOfSubscription(rows, churchId, subscriptionId) ==
    {r \in rows : r.churchId = churchId /\ r.subscriptionId = subscriptionId}

\* C16: a Subscription or SubscriptionFund row is written only by a subscribe
\* task that holds the id of a subscription the provider created, so a request
\* ended by missing credentials or a failed provider call writes none; when
\* subscribe returns success there is exactly one Subscription row of the
\* provider's subscription id and, of that subscription, exactly one
\* SubscriptionFund row per requested fund with the fund's id and amount.
C16_SubscribeWritesAfterProvider ==
    [][/\ (subscriptions' # subscriptions \/ subscriptionFunds' # subscriptionFunds)
          => \E t \in Tasks :
                /\ req[t].op = "subscribe" /\ Steps(t)
                /\ pc[t] \in {"s_saveSub", "s_saveFunds"}
                /\ loc[t].subscriptionId \in 1..providerSubs
       /\ \A t \in Tasks :
             (pc[t] = "s_create" /\ pc'[t] = "done")
             => UNCHANGED <<subscriptions, subscriptionFunds, providerSubs>>
       /\ \A t \in Tasks :
             (req[t].op = "subscribe" /\ Steps(t) /\ resp'[t] = 200)
             => LET sid   == loc[t].subscriptionId
                    funds == loc[t].funds
                    saved == FundsOfSubscription(subscriptionFunds', req[t].churchId, sid)
                IN  /\ Cardinality({x \in subscriptions' : x.id = sid}) = 1
                    /\ \A x \in subscriptions' : x.id = sid => x.churchId = req[t].churchId
                    /\ Cardinality(saved) = Len(funds)
                    /\ \A i \in 1..Len(funds) :
                          Cardinality({r \in saved : /\ r.fundId = funds[i].id
                                                     /\ r.amount = funds[i].amount}) = 1
                    /\ body'[t] = saved]_vars

\* one subscribe returned the two rows of its subscription while another
\* request was ended by the provider's failure, and no other row was written
C16_Witness ==
    /\ \E u \in Tasks : SubscribeReturned(u, "c1", 1) /\ Cardinality(body[u]) = 2
    /\ \E t \in Tasks : pc[t] = "done" /\ err[t] = "ProviderError"
    /\ Cardinality(subscriptions) = 1
    /\ Cardinality(subscriptionFunds) = 2

\* the rows of a store that a step wrote, changed or removed
Touched(rows, rowsAfter) == (rowsAfter \ rows) \cup (rows \ rowsAfter)

\* the operations scoped to a tenant: by the query string or by the session
Scoped == {"webhook", "charge", "subscribe", "save"}

\* C17: every row a step of a webhook, charge, subscribe or donation save
\* task writes or changes carries the task's tenant id; what the task reads
\* (the event's log entry, the stored fund split, the current batch) and what
\* it returns are rows of its tenant; and every FundDonation and
\* SubscriptionFund belongs to the tenant of the row it refers to.
C17_TenantIsolation ==
    [][/\ \A t \in Tasks :
             (req[t].op \in Scoped /\ Steps(t))
             => LET churchId == req[t].churchId
                IN  /\ \A r \in Touched(eventLog, eventLog') : r.churchId = churchId
                    /\ \A r \in Touched(donationBatches, donationBatches') : r.churchId = churchId
                    /\ \A r \in Touched(donations, donations') : r.churchId = churchId
                    /\ \A r \in Touched(fundDonations, fundDonations') : r.churchId = churchId
                    /\ \A r \in Touched(subscriptions, subscriptions') : r.churchId = churchId
                    /\ \A r \in Touched(subscriptionFunds, subscriptionFunds') : r.churchId = churchId
                    /\ (req[t].op \in {"subscribe", "save"} /\ body'[t] # body[t])
                       => \A r \in body'[t] : r.churchId = churchId
                    /\ (pc[t] = "w_loadEvent" /\ loc'[t].existingEvent = "found")
                       => \E e \in eventLog : e.churchId = churchId /\ e.id = loc[t].event
                    /\ (pc[t] = "w_donate" /\ pc'[t] = "ld_batch" /\ Recurring(t))
                       => \A i \in 1..Len(loc'[t].funds) :
                             \E r \in subscriptionFunds :
                                /\ r.churchId = churchId
                                /\ r.id = loc'[t].funds[i].id
                    /\ (pc[t] = "ld_batch" /\ pc'[t] = "ld_save")
                       => \E b \in donationBatches' :
                             b.churchId = churchId /\ b.id = loc'[t].donation.batchId
       /\ \A f \in fundDonations' :
             \E d \in donations' : d.id = f.donationId /\ d.churchId = f.churchId
       /\ \A f \in subscriptionFunds' :
             \E x \in subscriptions' : x.id = f.subscriptionId /\ x.churchId = f.churchId]_vars

\* a donation posted by a session of c1 that named c2 was saved as a row of
\* c1, next to a Donation of c2 that a webhook delivery recorded
C17_Witness ==
    /\ \E d \in donations : d.churchId = "c2" /\ d.method = "Card"
    /\ \E t \in Tasks :
          /\ pc[t] = "done" /\ resp[t] = 200
          /\ \E r \in body[t] : /\ "method" \in DOMAIN r
                                /\ r.method = "Check" /\ r.churchId = "c1"

\* the FundDonation rows of a Donation
FundsOfDonation(rows, donation) == {r \in rows : r.donationId = donation.id}

\* C18: in logDonation a batch is written only at the batch step and its id
\* is the one the donation goes on with; a Donation is written only at the
\* save step, is the stamped donation with its generated id, and carries the
\* id of a batch of its tenant; FundDonations are written only at the fund
\* step, after the Donation is a row, each with the Donation's id and tenant
\* and the id and amount of one supplied fund, at most one per supplied fund
\* and, on success, exactly one per supplied fund.
C18_LogDonationInOrder ==
    [][/\ \A t \in Tasks :
             /\ (pc[t] = "ld_batch" /\ pc'[t] = "ld_save")
                => /\ UNCHANGED <<donations, fundDonations>>
                   /\ loc[t].donation.batchId = Undefined
                   /\ \E b \in donationBatches' :
                         /\ b.churchId = loc[t].donation.churchId
                         /\ loc'[t].donation.batchId = b.id
             /\ (pc[t] = "ld_save" /\ pc'[t] = "ld_funds")
                => /\ UNCHANGED <<donationBatches, fundDonations>>
                   /\ loc[t].donation.id = Undefined
                   /\ donations' \ donations = {loc'[t].donation}
                   /\ loc'[t].donation = [loc[t].donation EXCEPT !.id = loc'[t].donation.id]
                   /\ FundsOfDonation(fundDonations, loc'[t].donation) = {}
             /\ (pc[t] = "ld_funds" /\ Steps(t))
                => LET new   == fundDonations' \ fundDonations
                       funds == loc[t].funds
                   IN  /\ UNCHANGED <<donationBatches, donations>>
                       /\ loc[t].donation \in donations
                       /\ \A r \in new :
                             /\ r.donationId = loc[t].donation.id
                             /\ r.churchId = loc[t].donation.churchId
                             /\ \E i \in 1..Len(funds) :
                                   r.fundId = funds[i].id /\ r.amount = funds[i].amount
                       /\ \A i \in 1..Len(funds) :
                             Cardinality({r \in new : /\ r.fundId = funds[i].id
                                                      /\ r.amount = funds[i].amount}) <= 1
                       /\ resp'[t] = 200
                          => /\ Cardinality(new) = Len(funds)
                             /\ \A i \in 1..Len(funds) :
                                   \E r \in new : /\ r.fundId = funds[i].id
                                                  /\ r.amount = funds[i].amount
       /\ (donationBatches' # donationBatches \/ donations' # donations
              \/ fundDonations' # fundDonations)
          => \E t \in Tasks : pc[t] \in InLogDonation /\ Steps(t)
       /\ \A d \in donations' :
             /\ d.batchId # Undefined
             /\ \E b \in donationBatches' : b.id = d.batchId /\ b.churchId = d.churchId
       /\ \A f \in fundDonations' :
             \E d \in donations' : d.id = f.donationId /\ d.churchId = f.churchId]_vars

\* a Donation with a batch id and its two FundDonations are rows, and the
\* delivery that posted them was answered 200
C18_Witness ==
    /\ \E d \in donations :
          /\ d.batchId # Undefined
          /\ Cardinality(FundsOfDonation(fundDonations, d)) = 2
          /\ \A f \in FundsOfDonation(fundDonations, d) : f.fundId \in {101, 102}
    /\ \E t \in Tasks : pc[t] = "done" /\ resp[t] = 200 /\ err[t] = ""
    /\ Cardinality(donations) = 1

\* C19: the step that submits the fund allocations ends with success only if
\* every allocation was saved; when it ends with a failure the Donation is
\* still a row and no row of any store was removed, and the allocations that
\* were saved are rows of that Donation.
C19_NoRollback ==
    [][\A t \in Tasks :
          (pc[t] = "ld_funds" /\ Steps(t))
          => LET new == fundDonations' \ fundDonations
             IN  /\ resp'[t] = 200 <=> Cardinality(new) = Len(loc[t].funds)
                 /\ resp'[t] # 200
                    => /\ resp'[t] = 500 /\ err'[t] = "PersistenceFailure"
                       /\ loc[t].donation \in donations'
                       /\ fundDonations \subseteq fundDonations'
                       /\ donationBatches \subseteq donationBatches'
                       /\ new \subseteq FundsOfDonation(fundDonations', loc[t].donation)]_vars

\* a delivery failed at its fund allocations and left its Donation with one
\* of its two allocations
C19_Witness ==
    \E t \in Tasks :
        /\ pc[t] = "done" /\ resp[t] = 500 /\ err[t] = "PersistenceFailure"
        /\ \E d \in donations :
              /\ Cardinality(FundsOfDonation(fundDonations, d)) = 1
              /\ Cardinality(donations) = 1
              /\ Cardinality(fundDonations) = 1

\* C20: the FundDonations written for an invoice.paid delivery whose funds
\* were loaded from the SubscriptionFund rows carry the fundId of those rows.
C20_FundIdOfSubscriptionFund ==
    [][\A t \in Tasks :
          (pc[t] = "ld_funds" /\ Recurring(t) /\ Steps(t))
          => \A r \in fundDonations' \ fundDonations :
                \E i \in 1..Len(loc[t].funds) :
                   /\ r.fundId = loc[t].funds[i].fundId
                   /\ r.amount = loc[t].funds[i].amount]_vars

====
